---- MODULE Spec2Model ----
(***************************************************************************)
(* Commands.cpp of SumatraPDF: the command catalog lookup, the argument    *)
(* grammar scanner (tryParseNamedArg, tryParseDefaultArg, parseBool,       *)
(* parseArgOfType) and the registry of commands with arguments             *)
(* (ParseCommand, CreateCommandWithArg, FindCommandWithArg,                *)
(* FreeCommandsWithArg, GetArg, GetIntArg, GetBoolArg).                    *)
(*                                                                         *)
(* A C string is a sequence of one-character strings; a char pointer that  *)
(* may be null is either nullptr or Ptr(s), s being the text it points at. *)
(***************************************************************************)
EXTENDS Integers, Sequences, FiniteSets, TLC

VARIABLES
    gNextCommandWithArgId, \* static int gNextCommandWithArgId
    gFirstCommandWithArg,  \* the registry list, head first
    issued,                \* history: the ids ParseCommand returned for created instances, in call order
    last                   \* history: the last call, its input and what it returned

vars == <<gNextCommandWithArgId, gFirstCommandWithArg, issued, last>>

----------------------------------------------------------------------------
(* utils/StrUtil: the str:: helpers Commands.cpp calls *)

nullptr == [null |-> TRUE]

Ptr(s) == [null |-> FALSE, str |-> s]

UpperChars == <<"A", "B", "C", "D", "E", "F", "G", "H", "I", "J", "K", "L", "M", "N", "O", "P", "Q", "R", "S", "T", "U", "V", "W", "X", "Y", "Z">>

LowerChars == <<"a", "b", "c", "d", "e", "f", "g", "h", "i", "j", "k", "l", "m", "n", "o", "p", "q", "r", "s", "t", "u", "v", "w", "x", "y", "z">>

\* the lower-case letter of each upper-case letter
LowerOf ==
    [c \in {UpperChars[i] : i \in DOMAIN UpperChars} |->
        LowerChars[CHOOSE i \in DOMAIN UpperChars : UpperChars[i] = c]]

tolower(c) == IF c \in DOMAIN LowerOf THEN LowerOf[c] ELSE c

str_Len(s) == Len(s)

str_EqI(a, b) ==
    /\ Len(a) = Len(b)
    /\ \A i \in 1..Len(a) : tolower(a[i]) = tolower(b[i])

str_StartsWithI(s, prefix) ==
    /\ Len(prefix) <= Len(s)
    /\ \A i \in 1..Len(prefix) : tolower(s[i]) = tolower(prefix[i])

\* the text from 1-based position i of s on (s + (i-1) in C)
StrFrom(s, i) == SubSeq(s, i, Len(s))

\* the character at 0-based offset i of s; the terminating NUL reads as ""
CharAt(s, i) == IF i + 1 <= Len(s) THEN s[i + 1] ELSE ""

\* str::SkipChar: s past every leading c
RECURSIVE str_SkipChar(_, _)
str_SkipChar(s, c) ==
    IF s # <<>> /\ Head(s) = c THEN str_SkipChar(Tail(s), c) ELSE s

\* str::FindChar: the 1-based position of the first c in s, 0 for a null result
RECURSIVE FindCharFrom(_, _, _)
FindCharFrom(s, c, i) ==
    IF i > Len(s) THEN 0
    ELSE IF s[i] = c THEN i
    ELSE FindCharFrom(s, c, i + 1)

str_FindChar(s, c) == FindCharFrom(s, c, 1)

\* Split(parts, s, " ", collapse = true, max = 2): the text before the first
\* separator and the rest as one unit; empty parts are dropped
Split2(s) ==
    LET p == str_FindChar(s, " ")
        head == IF p = 0 THEN s ELSE SubSeq(s, 1, p - 1)
        rest == IF p = 0 THEN <<>> ELSE StrFrom(s, p + 1)
    IN  SelectSeq(<<head, rest>>, LAMBDA part : part # <<>>)

Digits == <<"0", "1", "2", "3", "4", "5", "6", "7", "8", "9">>

IsDigit(c) == \E i \in DOMAIN Digits : Digits[i] = c

DigitVal(c) == (CHOOSE i \in DOMAIN Digits : Digits[i] = c) - 1

\* the value of the leading decimal digits of s, accumulated left to right
RECURSIVE ParseDigits(_, _)
ParseDigits(s, acc) ==
    IF s # <<>> /\ IsDigit(Head(s))
    THEN ParseDigits(Tail(s), acc * 10 + DigitVal(Head(s)))
    ELSE acc

\* ParseInt: best-effort integer, 0 when the text is not a number
ParseInt(s) ==
    IF s # <<>> /\ Head(s) = "-"
    THEN 0 - ParseDigits(Tail(s), 0)
    ELSE ParseDigits(s, 0)

HexDigits == <<"0", "1", "2", "3", "4", "5", "6", "7", "8", "9", "a", "b", "c", "d", "e", "f">>

IsHex(c) == \E i \in DOMAIN HexDigits : HexDigits[i] = tolower(c)

HexVal(c) == (CHOOSE i \in DOMAIN HexDigits : HexDigits[i] = tolower(c)) - 1

\* ParseColor: "#rrggbb" decodes to <<r, g, b>>; anything else is rejected
ParseColor(val) ==
    IF /\ Len(val) = 7
       /\ val[1] = "#"
       /\ \A i \in 2..7 : IsHex(val[i])
    THEN [parsedOk |-> TRUE,
          col |-> << HexVal(val[2]) * 16 + HexVal(val[3]),
                     HexVal(val[4]) * 16 + HexVal(val[5]),
                     HexVal(val[6]) * 16 + HexVal(val[7]) >>]
    ELSE [parsedOk |-> FALSE, col |-> <<0, 0, 0>>]

----------------------------------------------------------------------------
(* Commands.h: the command ids and the argument names *)

CmdNone == 0

CmdOpenFile == 1

CmdClose == 2

CmdScrollUp == 3

CmdScrollDown == 4

CmdGoToNextPage == 5

CmdGoToPrevPage == 6

CmdExec == 7

CmdCreateAnnotText == 8

CmdCreateAnnotLink == 9

CmdCreateAnnotFreeText == 10

CmdCreateAnnotLine == 11

CmdCreateAnnotSquare == 12

CmdCreateAnnotCircle == 13

CmdCreateAnnotPolygon == 14

CmdCreateAnnotPolyLine == 15

CmdCreateAnnotHighlight == 16

CmdCreateAnnotUnderline == 17

CmdCreateAnnotSquiggly == 18

CmdCreateAnnotStrikeOut == 19

CmdCreateAnnotRedact == 20

CmdCreateAnnotStamp == 21

CmdCreateAnnotCaret == 22

CmdCreateAnnotInk == 23

CmdCreateAnnotPopup == 24

CmdCreateAnnotFileAttachment == 25

\* the first id of a command with arguments, above every built-in id
CmdFirstWithArg == 26

kCmdArgSpec == <<"s", "p", "e", "c">>

kCmdArgFilter == <<"f", "i", "l", "t", "e", "r">>

kCmdArgColor == <<"c", "o", "l", "o", "r">>

kCmdArgOpenEdit == <<"o", "p", "e", "n", "e", "d", "i", "t">>

kCmdArgN == <<"n">>

\* COMMANDS(V): the (id, text) list the three tables are generated from;
\* CMD_NAME stringifies the id, so a command's name is its identifier
COMMANDS == <<
    <<CmdOpenFile, <<"C", "m", "d", "O", "p", "e", "n", "F", "i", "l", "e">>>>,
    <<CmdClose, <<"C", "m", "d", "C", "l", "o", "s", "e">>>>,
    <<CmdScrollUp, <<"C", "m", "d", "S", "c", "r", "o", "l", "l", "U", "p">>>>,
    <<CmdScrollDown, <<"C", "m", "d", "S", "c", "r", "o", "l", "l", "D", "o", "w", "n">>>>,
    <<CmdGoToNextPage, <<"C", "m", "d", "G", "o", "T", "o", "N", "e", "x", "t", "P", "a", "g", "e">>>>,
    <<CmdGoToPrevPage, <<"C", "m", "d", "G", "o", "T", "o", "P", "r", "e", "v", "P", "a", "g", "e">>>>,
    <<CmdExec, <<"C", "m", "d", "E", "x", "e", "c">>>>,
    <<CmdCreateAnnotText, <<"C", "m", "d", "C", "r", "e", "a", "t", "e", "A", "n", "n", "o", "t", "T", "e", "x", "t">>>>,
    <<CmdCreateAnnotLink, <<"C", "m", "d", "C", "r", "e", "a", "t", "e", "A", "n", "n", "o", "t", "L", "i", "n", "k">>>>,
    <<CmdCreateAnnotFreeText, <<"C", "m", "d", "C", "r", "e", "a", "t", "e", "A", "n", "n", "o", "t", "F", "r", "e", "e", "T", "e", "x", "t">>>>,
    <<CmdCreateAnnotLine, <<"C", "m", "d", "C", "r", "e", "a", "t", "e", "A", "n", "n", "o", "t", "L", "i", "n", "e">>>>,
    <<CmdCreateAnnotSquare, <<"C", "m", "d", "C", "r", "e", "a", "t", "e", "A", "n", "n", "o", "t", "S", "q", "u", "a", "r", "e">>>>,
    <<CmdCreateAnnotCircle, <<"C", "m", "d", "C", "r", "e", "a", "t", "e", "A", "n", "n", "o", "t", "C", "i", "r", "c", "l", "e">>>>,
    <<CmdCreateAnnotPolygon, <<"C", "m", "d", "C", "r", "e", "a", "t", "e", "A", "n", "n", "o", "t", "P", "o", "l", "y", "g", "o", "n">>>>,
    <<CmdCreateAnnotPolyLine, <<"C", "m", "d", "C", "r", "e", "a", "t", "e", "A", "n", "n", "o", "t", "P", "o", "l", "y", "L", "i", "n", "e">>>>,
    <<CmdCreateAnnotHighlight, <<"C", "m", "d", "C", "r", "e", "a", "t", "e", "A", "n", "n", "o", "t", "H", "i", "g", "h", "l", "i", "g", "h", "t">>>>,
    <<CmdCreateAnnotUnderline, <<"C", "m", "d", "C", "r", "e", "a", "t", "e", "A", "n", "n", "o", "t", "U", "n", "d", "e", "r", "l", "i", "n", "e">>>>,
    <<CmdCreateAnnotSquiggly, <<"C", "m", "d", "C", "r", "e", "a", "t", "e", "A", "n", "n", "o", "t", "S", "q", "u", "i", "g", "g", "l", "y">>>>,
    <<CmdCreateAnnotStrikeOut, <<"C", "m", "d", "C", "r", "e", "a", "t", "e", "A", "n", "n", "o", "t", "S", "t", "r", "i", "k", "e", "O", "u", "t">>>>,
    <<CmdCreateAnnotRedact, <<"C", "m", "d", "C", "r", "e", "a", "t", "e", "A", "n", "n", "o", "t", "R", "e", "d", "a", "c", "t">>>>,
    <<CmdCreateAnnotStamp, <<"C", "m", "d", "C", "r", "e", "a", "t", "e", "A", "n", "n", "o", "t", "S", "t", "a", "m", "p">>>>,
    <<CmdCreateAnnotCaret, <<"C", "m", "d", "C", "r", "e", "a", "t", "e", "A", "n", "n", "o", "t", "C", "a", "r", "e", "t">>>>,
    <<CmdCreateAnnotInk, <<"C", "m", "d", "C", "r", "e", "a", "t", "e", "A", "n", "n", "o", "t", "I", "n", "k">>>>,
    <<CmdCreateAnnotPopup, <<"C", "m", "d", "C", "r", "e", "a", "t", "e", "A", "n", "n", "o", "t", "P", "o", "p", "u", "p">>>>,
    <<CmdCreateAnnotFileAttachment, <<"C", "m", "d", "C", "r", "e", "a", "t", "e", "A", "n", "n", "o", "t", "F", "i", "l", "e", "A", "t", "t", "a", "c", "h", "m", "e", "n", "t">>>> >>

----------------------------------------------------------------------------
(* the catalog lookup *)

gCommandNames == [i \in DOMAIN COMMANDS |-> COMMANDS[i][2]]

gCommandIds == [i \in DOMAIN COMMANDS |-> COMMANDS[i][1]]

\* arg names are case insensitive
IsArgName(name, argName) ==
    IF str_EqI(name, argName) THEN TRUE
    ELSE IF ~str_StartsWithI(name, argName) THEN FALSE
    ELSE CharAt(name, str_Len(argName)) = "="

\* seqstrings::StrToIdxIS: the 0-based index of the first entry that s matches
\* (s equals it, or starts with it followed by "=", case-insensitively), -1 if none
RECURSIVE StrToIdxFrom(_, _, _)
StrToIdxFrom(strs, s, idx) ==
    IF idx >= Len(strs) THEN -1
    ELSE IF IsArgName(s, strs[idx + 1]) THEN idx
    ELSE StrToIdxFrom(strs, s, idx + 1)

seqstrings_StrToIdxIS(strs, s) == StrToIdxFrom(strs, s, 0)

\* mutant: the index in the name table is returned as the id
GetCommandIdByNameOrDesc_ReturnsIdx(commands, s) ==
    LET idx == seqstrings_StrToIdxIS(commands, s)
    IN  IF idx < 0 THEN -1 ELSE idx

\* mutant: the first entry of the table is taken as not found
GetCommandIdByNameOrDesc_FirstEntryLost(commands, s) ==
    LET idx == seqstrings_StrToIdxIS(commands, s)
    IN  IF idx <= 0 THEN -1 ELSE gCommandIds[idx + 1]

\* returns -1 if not found
GetCommandIdByNameOrDesc(commands, s) ==
    LET idx == seqstrings_StrToIdxIS(commands, s)
    IN  IF idx < 0 THEN -1 ELSE gCommandIds[idx + 1]

GetCommandIdByName(cmdName) == GetCommandIdByNameOrDesc(gCommandNames, cmdName)

----------------------------------------------------------------------------
(* arguments *)

\* new CommandArg() with type and name set, every value field at its default
newArg(type, name) ==
    [type |-> type, name |-> name, strVal |-> <<>>, intVal |-> 0,
     boolVal |-> FALSE, colorVal |-> [parsedOk |-> FALSE, col |-> <<0, 0, 0>>]]

\* mutant: the arg is put at the end of the list
insertArg_AtEnd(first, arg) ==
    IF arg = nullptr THEN first ELSE first \o <<arg>>

\* the list is a sequence, head first; a null arg is not inserted
insertArg(first, arg) ==
    IF arg = nullptr THEN first ELSE <<arg>> \o first

RECURSIVE FindArg(_, _, _)
FindArg(first, name, type) ==
    IF first = <<>> THEN nullptr
    ELSE IF IsArgName(Head(first).name, name) /\ Head(first).type = type
         THEN Head(first)
         ELSE FindArg(Tail(first), name, type)

\* arguments for the same command follow each other, the first is the default;
\* the C array is indexed from 0
argSpecs == <<
    [cmdId |-> CmdExec, name |-> kCmdArgSpec, type |-> "String"],
    [cmdId |-> CmdExec, name |-> kCmdArgFilter, type |-> "String"],
    [cmdId |-> CmdCreateAnnotText, name |-> kCmdArgColor, type |-> "Color"],
    [cmdId |-> CmdCreateAnnotText, name |-> kCmdArgOpenEdit, type |-> "Bool"],
    [cmdId |-> CmdScrollUp, name |-> kCmdArgN, type |-> "Int"],
    [cmdId |-> CmdNone, name |-> <<>>, type |-> "None"] >>

ArgSpecAt(i) == argSpecs[i + 1]

\* mutant: the parsed integer is computed but not stored in the argument
parseArgOfType_IntNotStored(argName, type, val) ==
    CASE type = "Color" ->
            LET col == ParseColor(val)
            IN  IF ~col.parsedOk THEN nullptr
                ELSE [newArg(type, argName) EXCEPT !.colorVal = col]
      [] type = "Int" -> newArg(type, argName)
      [] type = "String" -> [newArg(type, argName) EXCEPT !.strVal = val]
      [] OTHER -> nullptr

parseArgOfType(argName, type, val) ==
    CASE type = "Color" ->
            LET col == ParseColor(val)
            IN  IF ~col.parsedOk THEN nullptr
                ELSE [newArg(type, argName) EXCEPT !.colorVal = col]
      [] type = "Int" -> [newArg(type, argName) EXCEPT !.intVal = ParseInt(val)]
      [] type = "String" -> [newArg(type, argName) EXCEPT !.strVal = val]
      [] OTHER -> nullptr

\* mutant: a default string ends at the first space like every other type
DefaultValEnd_StringEndsAtSpace(type, valStart) == str_FindChar(valStart, " ")

\* the position of the space that ends the default value, 0 (null) when the
\* value runs to the end: for strings we eat it all
DefaultValEnd(type, valStart) ==
    IF type = "String" THEN 0 ELSE str_FindChar(valStart, " ")

\* mutant: the cursor is put back at the start of the value
DefaultCursorAfter_AtValueStart(valStart, valEnd) ==
    IF valEnd = 0 THEN nullptr ELSE Ptr(valStart)

\* no matter what, we advance past the value: null when the value ran to the
\* end, else past the spaces that follow it
DefaultCursorAfter(valStart, valEnd) ==
    IF valEnd = 0 THEN nullptr
    ELSE Ptr(str_SkipChar(StrFrom(valStart, valEnd), " "))

\* args is *argsInOut on entry. A null args reaches str::SkipChar as a null
\* pointer: fault marks it, and arg and argsInOut are what a build that reads a
\* null string as empty produces.
tryParseDefaultArg(defaultArgIdx, args) ==
    IF args = nullptr
    THEN [arg |-> parseArgOfType(ArgSpecAt(defaultArgIdx).name,
                                 ArgSpecAt(defaultArgIdx).type, <<>>),
          argsInOut |-> nullptr, fault |-> TRUE]
    ELSE
    LET valStart == str_SkipChar(args.str, " ")
        argName == ArgSpecAt(defaultArgIdx).name
        type == ArgSpecAt(defaultArgIdx).type
        valEnd == DefaultValEnd(type, valStart)
        val == IF valEnd = 0 THEN valStart ELSE SubSeq(valStart, 1, valEnd - 1)
    IN  [arg |-> parseArgOfType(argName, type, val),
         argsInOut |-> DefaultCursorAfter(valStart, valEnd),
         fault |-> FALSE]

\* 1 for a true token, 0 otherwise: both token sets return true
parseBool(s) ==
    IF str_EqI(s, <<"1">>) \/ str_EqI(s, <<"t", "r", "u", "e">>) \/ str_EqI(s, <<"y", "e", "s">>) THEN 1
    ELSE IF str_EqI(s, <<"0">>) \/ str_EqI(s, <<"f", "a", "l", "s", "e">>) \/ str_EqI(s, <<"n", "o">>) THEN 1
    ELSE 0

\* the index of the first spec of the group, from i on, whose name s starts
\* with; -1 when the group's specs are exhausted
RECURSIVE MatchNamedSpec(_, _, _)
MatchNamedSpec(i, cmdId, s) ==
    IF ArgSpecAt(i).cmdId # cmdId THEN -1
    ELSE IF ~str_StartsWithI(s, ArgSpecAt(i).name) THEN MatchNamedSpec(i + 1, cmdId, s)
    ELSE i

\* mutant: after "=" the value starts at the "=" itself
NamedValStart_EqualsNotSkipped(s) ==
    CASE CharAt(s, 0) = " " -> Ptr(str_SkipChar(s, " "))
      [] CharAt(s, 0) = ":" /\ CharAt(s, 1) = " " -> Ptr(str_SkipChar(StrFrom(s, 2), " "))
      [] CharAt(s, 0) = "=" -> Ptr(s)
      [] OTHER -> nullptr

\* where the value starts in s, the text after the matched name: after the
\* spaces, after ": " and the spaces, or right after "="; null otherwise
NamedValStart(s) ==
    CASE CharAt(s, 0) = " " -> Ptr(str_SkipChar(s, " "))
      [] CharAt(s, 0) = ":" /\ CharAt(s, 1) = " " -> Ptr(str_SkipChar(StrFrom(s, 2), " "))
      [] CharAt(s, 0) = "=" -> Ptr(StrFrom(s, 2))
      [] OTHER -> nullptr

\* mutant: the argument is made but its value is not set
BoolNameAtEnd_ValueNotSet(type, argName) ==
    [arg |-> newArg(type, argName), argsInOut |-> nullptr]

\* name of bool arg followed by nothing is true, and the input is used up
BoolNameAtEnd(type, argName) ==
    [arg |-> [newArg(type, argName) EXCEPT !.boolVal = TRUE],
     argsInOut |-> nullptr]

\* parse:  <name> <value>  |  <name>: <value>  |  <name>=<value>
\* for booleans only <name> works as well and represents true
tryParseNamedArg(firstArgIdx, args) ==
    LET i == MatchNamedSpec(firstArgIdx, ArgSpecAt(firstArgIdx).cmdId, args)
        none == [arg |-> nullptr, argsInOut |-> Ptr(args)]
    IN  IF i < 0 THEN none ELSE
    LET argName == ArgSpecAt(i).name
        type == ArgSpecAt(i).type
        s == StrFrom(args, str_Len(argName) + 1)
        valStart == NamedValStart(s)
    IN  IF CharAt(s, 0) = "" /\ type = "Bool"
        THEN BoolNameAtEnd(type, argName)
        ELSE IF valStart = nullptr THEN none ELSE
    LET p == str_FindChar(valStart.str, " ")
        val == IF p = 0 THEN valStart.str ELSE SubSeq(valStart.str, 1, p - 1)
        valEnd == IF p = 0 THEN nullptr ELSE Ptr(StrFrom(valStart.str, p + 1))
    IN  IF type = "Bool"
        THEN LET bv == parseBool(val)
             IN  [arg |-> [newArg(type, argName) EXCEPT !.boolVal = (bv # 0)],
                  argsInOut |-> IF bv = 0 \/ bv = 1 THEN valEnd ELSE valStart]
        ELSE [arg |-> parseArgOfType(argName, type, val), argsInOut |-> valEnd]

----------------------------------------------------------------------------
(* the registry of commands with arguments *)

\* mutant: the id is taken without advancing the counter
CreateCommandWithArg_NoIncrement(definition, origCmdId, firstArg) ==
    LET cmd == [id |-> gNextCommandWithArgId, origId |-> origCmdId,
                definition |-> definition, firstArg |-> firstArg]
    IN  /\ gNextCommandWithArgId' = gNextCommandWithArgId
        /\ gFirstCommandWithArg' = <<cmd>> \o gFirstCommandWithArg

\* mutant: the new command does not point at the list it is put in front of
CreateCommandWithArg_NextNotSet(definition, origCmdId, firstArg) ==
    LET cmd == [id |-> gNextCommandWithArgId, origId |-> origCmdId,
                definition |-> definition, firstArg |-> firstArg]
    IN  /\ gNextCommandWithArgId' = gNextCommandWithArgId + 1
        /\ gFirstCommandWithArg' = <<cmd>>

\* the list, head first, with the new command in front and the counter advanced
CreateCommandWithArg(definition, origCmdId, firstArg) ==
    LET cmd == [id |-> gNextCommandWithArgId, origId |-> origCmdId,
                definition |-> definition, firstArg |-> firstArg]
    IN  /\ gNextCommandWithArgId' = gNextCommandWithArgId + 1
        /\ gFirstCommandWithArg' = <<cmd>> \o gFirstCommandWithArg

RECURSIVE FindInList(_, _)
FindInList(list, cmdId) ==
    IF list = <<>> THEN nullptr
    ELSE IF Head(list).id = cmdId THEN Head(list)
    ELSE FindInList(Tail(list), cmdId)

FindCommandWithArg(cmdId) == FindInList(gFirstCommandWithArg, cmdId)

\* some commands share the same arguments, so canonicalize them; -1 for a
\* command that doesn't accept arguments
ArgCmdId(cmdId) ==
    IF cmdId \in {CmdCreateAnnotText, CmdCreateAnnotLink, CmdCreateAnnotFreeText,
                  CmdCreateAnnotLine, CmdCreateAnnotSquare, CmdCreateAnnotCircle,
                  CmdCreateAnnotPolygon, CmdCreateAnnotPolyLine,
                  CmdCreateAnnotHighlight, CmdCreateAnnotUnderline,
                  CmdCreateAnnotSquiggly, CmdCreateAnnotStrikeOut,
                  CmdCreateAnnotRedact, CmdCreateAnnotStamp, CmdCreateAnnotCaret,
                  CmdCreateAnnotInk, CmdCreateAnnotPopup,
                  CmdCreateAnnotFileAttachment}
    THEN CmdCreateAnnotText
    ELSE IF cmdId \in {CmdScrollUp, CmdScrollDown, CmdGoToNextPage, CmdGoToPrevPage}
    THEN CmdScrollUp
    ELSE IF cmdId = CmdExec THEN CmdExec
    ELSE -1

\* find arguments for this cmdId: the index of the group's first spec, -1 at
\* the sentinel
RECURSIVE FirstArgIdx(_, _)
FirstArgIdx(i, argCmdId) ==
    IF ArgSpecAt(i).cmdId = CmdNone THEN -1
    ELSE IF ArgSpecAt(i).cmdId # argCmdId THEN FirstArgIdx(i + 1, argCmdId)
    ELSE i

\* the loop of ParseCommand: named attempt, then the default attempt when it
\* returned no arg; every arg produced goes to the front of the list
RECURSIVE ScanArgs(_, _, _, _)
ScanArgs(firstArgIdx, currArg, firstArg, fault) ==
    IF currArg = nullptr THEN [firstArg |-> firstArg, fault |-> fault]
    ELSE LET named == tryParseNamedArg(firstArgIdx, currArg.str)
             dflt == tryParseDefaultArg(firstArgIdx, named.argsInOut)
             viaDefault == named.arg = nullptr
             arg == IF viaDefault THEN dflt.arg ELSE named.arg
             next == IF viaDefault THEN dflt.argsInOut ELSE named.argsInOut
         IN  ScanArgs(firstArgIdx, next, insertArg(firstArg, arg),
                      fault \/ (viaDefault /\ dflt.fault))

\* ParseCommand returning v without creating a command
Return(v, fault) == [kind |-> "return", ret |-> v, fault |-> fault]

\* mutant: a command is created even when no argument was parsed
ParseScanned_EmptyListAccepted(cmdId, scan) ==
    [kind |-> "create", origId |-> cmdId, firstArg |-> scan.firstArg,
     fault |-> scan.fault]

\* mutant: the command is created with the id of its group
ParseScanned_OrigIdOfGroup(cmdId, scan) ==
    IF scan.firstArg = <<>> THEN Return(-1, scan.fault)
    ELSE [kind |-> "create", origId |-> ArgCmdId(cmdId), firstArg |-> scan.firstArg,
          fault |-> scan.fault]

\* the end of ParseCommand: no argument parsed is a failure, otherwise the
\* command to create, with the id the name resolved to as its origId
ParseScanned(cmdId, scan) ==
    IF scan.firstArg = <<>> THEN Return(-1, scan.fault)
    ELSE [kind |-> "create", origId |-> cmdId, firstArg |-> scan.firstArg,
          fault |-> scan.fault]

\* from the lookup of the group's first spec on
ParseRemainder(cmdId, firstArgIdx, remainder) ==
    IF firstArgIdx < 0 THEN Return(-1, FALSE)
    ELSE ParseScanned(cmdId, ScanArgs(firstArgIdx, Ptr(remainder), <<>>, FALSE))

\* from the canonicalized id on
ParseGroup(cmdId, argCmdId, remainder) ==
    IF argCmdId < 0 THEN Return(-1, FALSE)
    ELSE ParseRemainder(cmdId, FirstArgIdx(0, argCmdId), remainder)

\* from the resolved id on
ParseParts(parts, cmdId) ==
    IF cmdId < 0 THEN Return(-1, FALSE)
    ELSE IF Len(parts) = 1 THEN Return(cmdId, FALSE)
    ELSE ParseGroup(cmdId, ArgCmdId(cmdId), parts[2])

ParseSplit(parts) == ParseParts(parts, GetCommandIdByName(parts[1]))

\* what ParseCommand computes from the definition alone: the value it returns
\* without creating a command ("return"), or the command to create ("create");
\* fault: the scan handed a null cursor to tryParseDefaultArg
ParseDefinition(definition) == ParseSplit(Split2(definition))

RECURSIVE GetArgInList(_, _)
GetArgInList(first, name) ==
    IF first = <<>> THEN nullptr
    ELSE IF str_EqI(Head(first).name, name) THEN Head(first)
    ELSE GetArgInList(Tail(first), name)

GetArg(cmd, name) ==
    IF cmd = nullptr THEN nullptr ELSE GetArgInList(cmd.firstArg, name)

GetIntArg(cmd, name, defValue) ==
    LET arg == GetArg(cmd, name)
    IN  IF arg # nullptr THEN arg.intVal ELSE defValue

GetBoolArg(cmd, name, defValue) ==
    LET arg == GetArg(cmd, name)
    IN  IF arg # nullptr THEN arg.boolVal ELSE defValue

----------------------------------------------------------------------------
(* the inputs *)

\* most commands with arguments created in one behaviour
MaxIssued == 3

\* the integers written into definitions are -MaxIntArg..MaxIntArg
MaxIntArg == 12

RECURSIVE NatToStr(_)
NatToStr(n) ==
    IF n < 10 THEN <<Digits[n + 1]>>
    ELSE NatToStr(n \div 10) \o <<Digits[(n % 10) + 1]>>

\* n in decimal, as a definition spells it
IntToStr(n) == IF n < 0 THEN <<"-">> \o NatToStr(0 - n) ELSE NatToStr(n)

NameOf(id) == COMMANDS[CHOOSE i \in DOMAIN COMMANDS : COMMANDS[i][1] = id][2]

SP == <<" ">>

ScrollIds == {CmdScrollUp, CmdScrollDown, CmdGoToNextPage, CmdGoToPrevPage}

BaseIds == {COMMANDS[i][1] : i \in DOMAIN COMMANDS}

InvalidColor == <<"n", "o", "t", "-", "a", "-", "c", "o", "l", "o", "r">>

TrueTokens == {<<"1">>, <<"t", "r", "u", "e">>, <<"y", "e", "s">>, <<"T", "r", "u", "e">>, <<"Y", "E", "S">>}

FalseTokens == {<<"0">>, <<"f", "a", "l", "s", "e">>, <<"n", "o">>, <<"F", "a", "l", "s", "e">>, <<"N", "O">>}

OtherTokens == {<<"f", "o", "o">>, <<"#", "0", "0", "f", "f", "0", "0">>, <<"2">>, <<"n", "o", "p", "e">>, <<"t", "r", "u", "e", "l", "y">>, <<"o", "n">>}

\* every catalog name on its own, and a name the catalog does not hold
PlainDefinitions ==
    {COMMANDS[i][2] : i \in DOMAIN COMMANDS} \cup {<<"C", "m", "d", "N", "o", "S", "u", "c", "h", "C", "o", "m", "m", "a", "n", "d">>, <<"c", "m", "d", "s", "c", "r", "o", "l", "l", "u", "p">>}

\* definitions with a remainder, for the behaviours of the registry
ArgDefinitions ==
    { <<"C", "m", "d", "S", "c", "r", "o", "l", "l", "U", "p", " ", "5">>,
      <<"C", "m", "d", "G", "o", "T", "o", "N", "e", "x", "t", "P", "a", "g", "e", " ", "n", "=", "1", "2">>,
      <<"C", "m", "d", "C", "r", "e", "a", "t", "e", "A", "n", "n", "o", "t", "T", "e", "x", "t", " ", "c", "o", "l", "o", "r", "=", "#", "F", "F", "0", "0", "0", "0", " ", "o", "p", "e", "n", "E", "d", "i", "t">>,
      <<"C", "m", "d", "C", "r", "e", "a", "t", "e", "A", "n", "n", "o", "t", "H", "i", "g", "h", "l", "i", "g", "h", "t", " ", "o", "p", "e", "n", "E", "d", "i", "t">>,
      <<"C", "m", "d", "E", "x", "e", "c", " ", "n", "o", "t", "e", "p", "a", "d", ".", "e", "x", "e", " ", "-", "-", "f", "l", "a", "g">>,
      <<"C", "m", "d", "C", "r", "e", "a", "t", "e", "A", "n", "n", "o", "t", "T", "e", "x", "t", " ", "c", "o", "l", "o", "r", "=", "n", "o", "t", "-", "a", "-", "c", "o", "l", "o", "r">>,
      <<"C", "m", "d", "C", "r", "e", "a", "t", "e", "A", "n", "n", "o", "t", "T", "e", "x", "t", " ", "c", "o", "l", "o", "r", "=", "n", "o", "t", "-", "a", "-", "c", "o", "l", "o", "r", " ", "o", "p", "e", "n", "E", "d", "i", "t">>,
      <<"C", "m", "d", "O", "p", "e", "n", "F", "i", "l", "e", " ", "x", ".", "p", "d", "f">>,
      <<"C", "m", "d", "N", "o", "S", "u", "c", "h", "C", "o", "m", "m", "a", "n", "d", " ", "5">> }

Definitions == PlainDefinitions \cup ArgDefinitions

\* remainders for the scroll family
IntRemainders == {IntToStr(n) : n \in (0 - MaxIntArg)..MaxIntArg}

\* color texts with the color each decodes to
ValidColors ==
    { <<<<"#", "F", "F", "0", "0", "0", "0">>, <<255, 0, 0>>>>,
      <<<<"#", "0", "0", "f", "f", "0", "0">>, <<0, 255, 0>>>>,
      <<<<"#", "1", "0", "2", "0", "A", "b">>, <<16, 32, 171>>>> }

InvalidColors == {InvalidColor, <<"r", "e", "d">>, <<"#", "1", "2", "3", "4", "5">>, <<"#", "G", "G", "0", "0", "0", "0">>, <<"F", "F", "0", "0", "0", "0">>}

ColorTexts == {c[1] : c \in ValidColors} \cup InvalidColors

\* the three separators the named form accepts
NameSeps == {SP, <<":", " ">>, <<"=">>}

BoolTokens == TrueTokens \cup FalseTokens \cup OtherTokens \cup {c[1] : c \in ValidColors}

\* remainders for the annotation family
AnnotRemainders ==
    { <<"C", "o", "l", "o", "r", " ", "#", "0", "0", "0", "0", "f", "f", " ", "O", "p", "e", "n", "E", "d", "i", "t">>, <<"#", "1", "0", "2", "0", "3", "0", " ", "o", "p", "e", "n", "E", "d", "i", "t">>, <<"#", "1", "0", "2", "0", "3", "0">>,
      <<"o", "p", "e", "n", "E", "d", "i", "t">>, <<"o", "p", "e", "n", "E", "d", "i", "t", " ", "c", "o", "l", "o", "r", "=", "#", "F", "F", "0", "0", "0", "0">>, <<"o", "p", "e", "n", "e", "d", "i", "t", "=", "1", " ", "c", "o", "l", "o", "r", "=", "#", "F", "F", "0", "0", "0", "0">>,
      <<"c", "o", "l", "o", "r", "=", "n", "o", "t", "-", "a", "-", "c", "o", "l", "o", "r", " ", "o", "p", "e", "n", "E", "d", "i", "t", " ", "c", "o", "l", "o", "r", "=", "#", "F", "F", "0", "0", "0", "0">>,
      <<"c", "o", "l", "o", "r", "=", "#", "F", "F", "0", "0", "0", "0", " ", "c", "o", "l", "o", "r", "=", "#", "0", "0", "F", "F", "0", "0">>, <<"n", "o", "t", "-", "a", "-", "c", "o", "l", "o", "r">> }
    \cup {kCmdArgColor \o sep \o c : sep \in NameSeps, c \in ColorTexts}
    \cup {kCmdArgColor \o sep \o c \o <<" ", "o", "p", "e", "n", "E", "d", "i", "t">> : sep \in NameSeps, c \in ColorTexts}
    \cup {kCmdArgOpenEdit \o sep \o t : sep \in NameSeps, t \in BoolTokens}
    \cup {kCmdArgColor \o <<"=", "#", "F", "F", "0", "0", "0", "0", " ", "o", "p", "e", "n", "E", "d", "i", "t", " ">> \o t : t \in BoolTokens}

\* remainders for Exec
ExecRemainders ==
    { <<"n", "o", "t", "e", "p", "a", "d", ".", "e", "x", "e", " ", "-", "-", "f", "l", "a", "g">>, <<"n", "o", "t", "e", "p", "a", "d", ".", "e", "x", "e">>, <<" ", "n", "o", "t", "e", "p", "a", "d", ".", "e", "x", "e", " ", "-", "-", "f", "l", "a", "g">>,
      <<"n", "o", "t", "e", "p", "a", "d", ".", "e", "x", "e", " ", "-", "-", "f", "l", "a", "g", " ">>, <<"a", " ", " ", "b">>, <<"f", "i", "l", "t", "e", "r", "=", "x", " ", "a", " ", "b">>, <<"f", "i", "l", "t", "e", "r", "=", "x">>,
      <<"f", "i", "l", "t", "e", "r", " ", "*", ".", "p", "d", "f", " ", "s", "p", "e", "c", "=", "r", "u", "n", ".", "e", "x", "e">>, <<"s", "p", "e", "c", "=", "r", "u", "n", ".", "e", "x", "e", " ", "f", "i", "l", "t", "e", "r", "=", "x">>,
      <<"s", "p", "e", "c", "i", "a", "l", ".", "e", "x", "e", " ", "-", "v">>, <<"S", "p", "e", "c", ":", " ", "r", "u", "n", ".", "e", "x", "e">>, <<"f", "i", "l", "t", "e", "r">>, <<"-", "5">>,
      <<"x", " ", "f", "i", "l", "t", "e", "r", "=", "y">>, <<"n", "=", "5">>, <<"c", "o", "l", "o", "r", "=", "#", "F", "F", "0", "0", "0", "0", " ", "o", "p", "e", "n", "E", "d", "i", "t">> }

Remainders == IntRemainders \cup AnnotRemainders \cup ExecRemainders
    \cup { <<"5", " ">>, <<"n", " ", "5">>, <<"n", ":", " ", "5">>, <<"n", "=", "5">>, <<"N", "=", "-", "7">>, <<"5", " ", "6">>, <<"n", "=", "5", " ", "n", "=", "6">>,
           <<"a", "b", "c">>, <<"n">>, <<"5", "x">>, <<"1", " ", "2", " ", "3", " ", "4">>, <<"n", "=", "1", " ", "n", ":", " ", "2", " ", "3", " ">>, <<"f", "i", "l", "t", "e", "r", "=", "x", " ">>,
           <<"c", "o", "l", "o", "r", "=", "#", "F", "F", "0", "0", "0", "0", " ">>, <<"o", "p", "e", "n", "E", "d", "i", "t", " ">>, <<"n", "=", "5", " ">> }

ScanNames ==
    {NameOf(id) : id \in ScrollIds \cup {CmdExec, CmdCreateAnnotText,
                                         CmdCreateAnnotHighlight, CmdOpenFile}}
    \cup {<<"C", "m", "d", "N", "o", "S", "u", "c", "h", "C", "o", "m", "m", "a", "n", "d">>, <<"c", "m", "d", "e", "x", "e", "c">>}

\* every name on its own and with every remainder
ScanDefinitions ==
    PlainDefinitions \cup {name \o SP \o rem : name \in ScanNames, rem \in Remainders}

\* the first spec of each group
GroupIdxs == {i \in 0..(Len(argSpecs) - 2) :
                 i = 0 \/ ArgSpecAt(i - 1).cmdId # ArgSpecAt(i).cmdId}

ArgNames == {argSpecs[i].name : i \in 1..(Len(argSpecs) - 1)}
    \cup {<<"C", "o", "l", "o", "r">>, <<"O", "p", "e", "n", "E", "d", "i", "t">>, <<"N">>, <<"F", "I", "L", "T", "E", "R">>}

Separators == {SP, <<":", " ">>, <<"=">>, <<":">>, <<" ", " ">>, <<>>}

Values ==
    {<<"5">>, <<"-", "3">>, <<"x">>, <<"a", ".", "e", "x", "e">>, <<"=", "5">>, <<":">>, InvalidColor}
    \cup BoolTokens

Followers == {<<>>, <<" ", "o", "p", "e", "n", "E", "d", "i", "t">>, <<" ", "x", " ", "y">>, <<" ", " ", "z">>, SP}

\* the upper-case letter of each lower-case letter
UpperOf ==
    [c \in {LowerChars[i] : i \in DOMAIN LowerChars} |->
        UpperChars[CHOOSE i \in DOMAIN LowerChars : LowerChars[i] = c]]

toupper(c) == IF c \in DOMAIN UpperOf THEN UpperOf[c] ELSE c

\* s in upper case, in lower case, and with the two alternating
UpperCased(s) == [i \in DOMAIN s |-> toupper(s[i])]

LowerCased(s) == [i \in DOMAIN s |-> tolower(s[i])]

AlternateCased(s) == [i \in DOMAIN s |-> IF i % 2 = 0 THEN toupper(s[i]) ELSE tolower(s[i])]

\* every catalog name as the catalog spells it and in other letter cases
NameSpellings ==
    UNION {{n, UpperCased(n), LowerCased(n), AlternateCased(n)} :
              n \in {COMMANDS[i][2] : i \in DOMAIN COMMANDS}}

\* texts that are no catalog name
NonNames ==
    {<<"n", "o", "t", "-", "a", "-", "r", "e", "a", "l", "-", "c", "o", "m", "m", "a", "n", "d">>, <<>>, <<"C", "m", "d", "S", "c", "r", "o", "l", "l">>, <<"C", "m", "d", "S", "c", "r", "o", "l", "l", "U", "p", "x">>, <<"S", "c", "r", "o", "l", "l", "U", "p">>,
     <<"C", "m", "d", "S", "c", "r", "o", "l", "l", "U", "p", " ">>, <<" ", "C", "m", "d", "S", "c", "r", "o", "l", "l", "U", "p">>, <<"C", "m", "d">>, <<"C", "m", "d", "N", "o", "S", "u", "c", "h", "C", "o", "m", "m", "a", "n", "d">>, <<"=", "C", "m", "d", "C", "l", "o", "s", "e">>,
     <<"C", "m", "d", "C", "l", "o", "s", "e", ":">>, <<"O", "p", "e", "n", " ", "F", "i", "l", "e">>}

\* a catalog name followed by "=" and more
NamesWithEquals == {<<"C", "m", "d", "S", "c", "r", "o", "l", "l", "U", "p", "=", "5">>, <<"c", "m", "d", "e", "x", "e", "c", "=">>, <<"C", "m", "d", "C", "l", "o", "s", "e", "=", "C", "m", "d", "O", "p", "e", "n", "F", "i", "l", "e">>}

LookupNames == NameSpellings \cup NonNames \cup NamesWithEquals

\* the names the accessors are asked for
AccessorNames ==
    {kCmdArgSpec, kCmdArgFilter, kCmdArgColor, kCmdArgOpenEdit, kCmdArgN,
     <<"C", "O", "L", "O", "R">>, <<"N">>, <<"c", "o", "l">>, <<"n", "=">>}

\* the defaults GetIntArg is given
IntDefaults == {-1, 7}

\* <name><separator><value><what follows>
NamedForm(a, sep, v, follow) == a \o sep \o v \o follow

\* the texts the scanner's functions are applied to
ScanTexts ==
    Remainders \cup {<<>>}
    \cup {NamedForm(a, sep, v, f) : a \in ArgNames, sep \in Separators,
                                    v \in Values, f \in Followers}

----------------------------------------------------------------------------
(* the state machine *)

Init ==
    /\ gNextCommandWithArgId = CmdFirstWithArg
    /\ gFirstCommandWithArg = <<>>
    /\ issued = <<>>
    /\ last = [op |-> "none"]

\* a call that read through a null pointer and ended the process
Crashed == last.op = "ParseCommand" /\ last.crashed

\* ParseDefinition over the inputs, computed once
Parsed == [d \in Definitions \cup ScanDefinitions |-> ParseDefinition(d)]

\* mutant: a parse that fails takes an id all the same
ParseCommandDo_FailureTakesId(definition, r) ==
    \/ /\ r.kind = "return"
       /\ last' = [op |-> "ParseCommand", definition |-> definition,
                   crashed |-> FALSE, created |-> FALSE, ret |-> r.ret]
       /\ gNextCommandWithArgId' =
             IF r.ret = -1 /\ gNextCommandWithArgId < CmdFirstWithArg + MaxIssued
             THEN gNextCommandWithArgId + 1 ELSE gNextCommandWithArgId
       /\ UNCHANGED <<gFirstCommandWithArg, issued>>
    \/ /\ r.kind = "create"
       /\ gNextCommandWithArgId < CmdFirstWithArg + MaxIssued
       /\ CreateCommandWithArg(definition, r.origId, r.firstArg)
       /\ issued' = Append(issued, gNextCommandWithArgId)
       /\ last' = [op |-> "ParseCommand", definition |-> definition,
                   crashed |-> FALSE, created |-> TRUE,
                   ret |-> gNextCommandWithArgId]
    \/ /\ r.fault
       /\ last' = [op |-> "ParseCommand", definition |-> definition,
                   crashed |-> TRUE]
       /\ UNCHANGED <<gNextCommandWithArgId, gFirstCommandWithArg, issued>>

\* the effect of ParseCommand(definition), r being what it computed; a scan
\* that read through a null pointer may also end the process
ParseCommandDo(definition, r) ==
    \/ /\ r.kind = "return"
       /\ last' = [op |-> "ParseCommand", definition |-> definition,
                   crashed |-> FALSE, created |-> FALSE, ret |-> r.ret]
       /\ UNCHANGED <<gNextCommandWithArgId, gFirstCommandWithArg, issued>>
    \/ /\ r.kind = "create"
       /\ gNextCommandWithArgId < CmdFirstWithArg + MaxIssued
       /\ CreateCommandWithArg(definition, r.origId, r.firstArg)
       /\ issued' = Append(issued, gNextCommandWithArgId)
       /\ last' = [op |-> "ParseCommand", definition |-> definition,
                   crashed |-> FALSE, created |-> TRUE,
                   ret |-> gNextCommandWithArgId]
    \/ /\ r.fault
       /\ last' = [op |-> "ParseCommand", definition |-> definition,
                   crashed |-> TRUE]
       /\ UNCHANGED <<gNextCommandWithArgId, gFirstCommandWithArg, issued>>

ParseCommand(definition) ==
    /\ ~Crashed
    /\ ParseCommandDo(definition, Parsed[definition])

\* mutant: the clear also puts the counter back to its seed
FreeCommandsWithArg_ResetsCounter ==
    /\ ~Crashed
    /\ gFirstCommandWithArg' = <<>>
    /\ gNextCommandWithArgId' = CmdFirstWithArg
    /\ last' = [op |-> "FreeCommandsWithArg"]
    /\ UNCHANGED issued

FreeCommandsWithArg ==
    /\ ~Crashed
    /\ gFirstCommandWithArg' = <<>>
    /\ last' = [op |-> "FreeCommandsWithArg"]
    /\ UNCHANGED <<gNextCommandWithArgId, issued>>

Next ==
    \/ \E definition \in Definitions : ParseCommand(definition)
    \/ FreeCommandsWithArg

Spec == Init /\ [][Next]_vars

\* a fresh process applies one of the scanner's functions to one input, or
\* parses one definition and then reads an argument of what the call returned
parseBoolCall(s) ==
    /\ last' = [op |-> "parseBool", s |-> s, ret |-> parseBool(s)]
    /\ UNCHANGED <<gNextCommandWithArgId, gFirstCommandWithArg, issued>>

tryParseNamedArgCall(firstArgIdx, args) ==
    /\ last' = [op |-> "tryParseNamedArg", firstArgIdx |-> firstArgIdx,
                args |-> args, res |-> tryParseNamedArg(firstArgIdx, args)]
    /\ UNCHANGED <<gNextCommandWithArgId, gFirstCommandWithArg, issued>>

tryParseDefaultArgCall(defaultArgIdx, args) ==
    /\ last' = [op |-> "tryParseDefaultArg", defaultArgIdx |-> defaultArgIdx,
                args |-> args, res |-> tryParseDefaultArg(defaultArgIdx, Ptr(args))]
    /\ UNCHANGED <<gNextCommandWithArgId, gFirstCommandWithArg, issued>>

GetCommandIdByNameCall(cmdName) ==
    /\ last' = [op |-> "GetCommandIdByName", cmdName |-> cmdName,
                ret |-> GetCommandIdByName(cmdName)]
    /\ UNCHANGED <<gNextCommandWithArgId, gFirstCommandWithArg, issued>>

\* the accessors, applied to what FindCommandWithArg returns for cmdId
GetArgCall(cmdId, name) ==
    /\ last' = [op |-> "GetArg", cmd |-> FindCommandWithArg(cmdId), name |-> name,
                ret |-> GetArg(FindCommandWithArg(cmdId), name)]
    /\ UNCHANGED <<gNextCommandWithArgId, gFirstCommandWithArg, issued>>

GetIntArgCall(cmdId, name, defValue) ==
    /\ last' = [op |-> "GetIntArg", cmd |-> FindCommandWithArg(cmdId), name |-> name,
                defValue |-> defValue,
                ret |-> GetIntArg(FindCommandWithArg(cmdId), name, defValue)]
    /\ UNCHANGED <<gNextCommandWithArgId, gFirstCommandWithArg, issued>>

GetBoolArgCall(cmdId, name, defValue) ==
    /\ last' = [op |-> "GetBoolArg", cmd |-> FindCommandWithArg(cmdId), name |-> name,
                defValue |-> defValue,
                ret |-> GetBoolArg(FindCommandWithArg(cmdId), name, defValue)]
    /\ UNCHANGED <<gNextCommandWithArgId, gFirstCommandWithArg, issued>>

\* no call was made yet
Fresh == last.op = "none"

\* the one call made was a ParseCommand, and it returned
Returned == last.op = "ParseCommand" /\ ~last.crashed

ScanNext ==
    \/ Fresh /\ \E definition \in ScanDefinitions : ParseCommand(definition)
    \/ Fresh /\ \E s \in Values : parseBoolCall(s)
    \/ Fresh /\ \E i \in GroupIdxs, args \in ScanTexts : tryParseNamedArgCall(i, args)
    \/ Fresh /\ \E i \in GroupIdxs, args \in ScanTexts : tryParseDefaultArgCall(i, args)
    \/ Fresh /\ \E cmdName \in LookupNames : GetCommandIdByNameCall(cmdName)
    \/ Returned /\ \E name \in AccessorNames : GetArgCall(last.ret, name)
    \/ Returned /\ \E name \in AccessorNames, d \in IntDefaults :
                       GetIntArgCall(last.ret, name, d)
    \/ Returned /\ \E name \in AccessorNames, d \in BOOLEAN :
                       GetBoolArgCall(last.ret, name, d)

ScanSpec == Init /\ [][ScanNext]_vars

----------------------------------------------------------------------------
(* ParseCommand with the scan loop taken one iteration at a time *)

\* ParseCommand is inside its loop (lines 385-397)
InLoop == last.op = "ParseCommandLoop"

LoopEnterAt(definition, remainder, cmdId, firstArgIdx) ==
    /\ firstArgIdx >= 0
    /\ last' = [op |-> "ParseCommandLoop", definition |-> definition, cmdId |-> cmdId,
                firstArgIdx |-> firstArgIdx, remainder |-> remainder,
                currArg |-> Ptr(remainder), firstArg |-> <<>>,
                produced |-> <<>>, iterations |-> 0]
    /\ UNCHANGED <<gNextCommandWithArgId, gFirstCommandWithArg, issued>>

LoopEnterCmd(definition, remainder, cmdId) ==
    /\ cmdId >= 0
    /\ ArgCmdId(cmdId) >= 0
    /\ LoopEnterAt(definition, remainder, cmdId, FirstArgIdx(0, ArgCmdId(cmdId)))

LoopEnterParts(definition, parts) ==
    /\ Len(parts) = 2
    /\ LoopEnterCmd(definition, parts[2], GetCommandIdByName(parts[1]))

\* ParseCommand(definition) up to the first test of the loop, for a definition
\* that gets that far
LoopEnter(definition) == LoopEnterParts(definition, Split2(definition))

\* the end of one iteration: the arg, if any, goes in front of the list
LoopAdvance(arg, currArg) ==
    /\ last' = [last EXCEPT !.currArg = currArg,
                            !.firstArg = insertArg(@, arg),
                            !.produced = IF arg = nullptr THEN @ ELSE Append(@, arg),
                            !.iterations = @ + 1]
    /\ UNCHANGED <<gNextCommandWithArgId, gFirstCommandWithArg, issued>>

\* the body of the loop on the cursor currArg: the named attempt, then the
\* default attempt if it gave no arg; fault: the default attempt got a null cursor
ScanIteration(firstArgIdx, currArg) ==
    LET named == tryParseNamedArg(firstArgIdx, currArg)
    IN  IF named.arg # nullptr
        THEN [arg |-> named.arg, argsInOut |-> named.argsInOut, fault |-> FALSE]
        ELSE tryParseDefaultArg(firstArgIdx, named.argsInOut)

\* the texts a cursor into a remainder can point at
CursorTexts ==
    UNION {{SubSeq(r, k, Len(r)) : k \in 1..(Len(r) + 1)} : r \in Remainders}

\* ScanIteration over the cursors, computed once
Iterations == [i \in GroupIdxs, s \in CursorTexts |-> ScanIteration(i, s)]

\* what an iteration does with the outcome of its attempts; a default attempt
\* on a null cursor may end the process
LoopStep(it) ==
    \/ LoopAdvance(it.arg, it.argsInOut)
    \/ /\ it.fault
       /\ last' = [op |-> "ParseCommand", definition |-> last.definition,
                   crashed |-> TRUE]
       /\ UNCHANGED <<gNextCommandWithArgId, gFirstCommandWithArg, issued>>

\* one iteration of the loop
LoopIteration ==
    /\ InLoop
    /\ last.currArg # nullptr
    /\ LoopStep(Iterations[last.firstArgIdx, last.currArg.str])

\* the loop is left on a null cursor, and ParseCommand ends
LoopExit ==
    /\ InLoop
    /\ last.currArg = nullptr
    /\ ParseCommandDo(last.definition,
                      ParseScanned(last.cmdId, [firstArg |-> last.firstArg, fault |-> FALSE]))

LoopNext ==
    \/ Fresh /\ \E definition \in ScanDefinitions : LoopEnter(definition)
    \/ LoopIteration
    \/ LoopExit

\* a call that entered the loop goes on running
LoopSpec ==
    /\ Init
    /\ [][LoopNext]_vars
    /\ WF_vars(LoopIteration)
    /\ WF_vars(LoopExit)

----------------------------------------------------------------------------
(* the claims *)

Range(seq) == {seq[i] : i \in DOMAIN seq}

\* the last call was a ParseCommand that returned (did not end the process)
LastParse == last.op = "ParseCommand" /\ ~last.crashed

\* the last call was a ParseCommand that created a command with arguments
LastCreated == LastParse /\ last.created

\* C1: over any sequence of ParseCommand and FreeCommandsWithArg calls, the ids
\* returned by the ParseCommand calls that create an instance are strictly
\* increasing in call order, each is >= CmdFirstWithArg and none is the id of a
\* built-in command.
C1_IdsStrictlyIncreasing ==
    /\ \A i, j \in DOMAIN issued : i < j => issued[i] < issued[j]
    /\ \A i \in DOMAIN issued :
          /\ issued[i] >= CmdFirstWithArg
          /\ issued[i] \notin BaseIds
    /\ LastCreated => last.ret = issued[Len(issued)]

\* three ids were issued, with a clear among the calls
C1_Witness ==
    /\ Len(issued) = 3
    /\ Len(gFirstCommandWithArg) = 1
    /\ LastCreated

\* C2: after FreeCommandsWithArg, FindCommandWithArg(k) is null for every id k
\* issued before it; the clear does not reset the counter, which stays above
\* every issued id; and a ParseCommand call that creates an instance afterwards
\* returns an id greater than every id issued before.
C2_ClearKeepsCounter ==
    /\ last.op = "FreeCommandsWithArg" =>
          \A k \in Range(issued) : FindCommandWithArg(k) = nullptr
    /\ gNextCommandWithArgId = CmdFirstWithArg + Len(issued)
    /\ \A k \in Range(issued) : k < gNextCommandWithArgId
    /\ LastCreated =>
          \A i \in 1..(Len(issued) - 1) : issued[i] < last.ret

\* a command was created after a clear that removed two earlier ones
C2_Witness ==
    /\ LastCreated
    /\ Len(issued) = 3
    /\ Len(gFirstCommandWithArg) = 1
    /\ FindCommandWithArg(issued[1]) = nullptr
    /\ FindCommandWithArg(issued[2]) = nullptr
    /\ FindCommandWithArg(last.ret) # nullptr

\* C3: for every known command name given with no remainder, ParseCommand
\* returns that command's base id, leaves the registry list and the id
\* counter unchanged, and FindCommandWithArg on the returned id is null.
C3_PlainNameReturnsBaseId ==
    [][\A i \in DOMAIN COMMANDS :
          (last'.op = "ParseCommand" /\ last'.definition = COMMANDS[i][2]) =>
              /\ ~last'.crashed
              /\ last'.ret = COMMANDS[i][1]
              /\ gFirstCommandWithArg' = gFirstCommandWithArg
              /\ gNextCommandWithArgId' = gNextCommandWithArgId
              /\ issued' = issued
              /\ FindInList(gFirstCommandWithArg', last'.ret) = nullptr]_vars

\* a plain ScrollUp was parsed while the registry held two commands
C3_Witness ==
    /\ LastParse
    /\ last.definition = NameOf(CmdScrollUp)
    /\ last.ret = CmdScrollUp
    /\ Len(gFirstCommandWithArg) = 2

\* the command ParseCommand last created, as FindCommandWithArg returns it
LastCmd == FindCommandWithArg(last.ret)

\* the names among the inputs that resolve to a command of the group of id
NamesOfGroup(id) ==
    {name \in ScanNames :
        /\ GetCommandIdByName(name) >= 0
        /\ ArgCmdId(GetCommandIdByName(name)) = id}

\* the spellings among the inputs of the argument name argName
SpellingsOf(argName) == {a \in ArgNames : str_EqI(a, argName)}

AnnotNames == NamesOfGroup(CmdCreateAnnotText)

ExecNames == NamesOfGroup(CmdExec)

\* the index of the first spec of the annotation group
AnnotIdx == FirstArgIdx(0, CmdCreateAnnotText)

BoolArg(b) == [newArg("Bool", kCmdArgOpenEdit) EXCEPT !.boolVal = b]

ColorArg(rgb) ==
    [newArg("Color", kCmdArgColor) EXCEPT !.colorVal = [parsedOk |-> TRUE, col |-> rgb]]

\* the cursor after a value that is followed by f: null at the end of the
\* text, else the text after the one space that ended the value
CursorAfter(f) == IF f = <<>> THEN nullptr ELSE Ptr(Tail(f))

\* C4: when a named Color argument carries a value the color parser rejects,
\* only that argument is dropped and the tokens after it are parsed as they
\* would be on their own: "<annotation command> color=<invalid> openEdit"
\* creates an instance whose argument list is exactly the openEdit argument.
C4_InvalidColorOnlyDropped ==
    \A name \in AnnotNames, sep \in NameSeps, c \in InvalidColors :
        (/\ last.op = "ParseCommand"
         /\ last.definition = name \o SP \o kCmdArgColor \o sep \o c \o <<" ", "o", "p", "e", "n", "E", "d", "i", "t">>) =>
            /\ ~last.crashed
            /\ last.created
            /\ LastCmd # nullptr
            /\ LastCmd.firstArg = <<BoolArg(TRUE)>>

\* C5: when a named Bool argument is followed by a value token in neither
\* {1,true,yes} nor {0,false,no}, the scanner produces the Bool argument with
\* value true and leaves the cursor at the start of that token, and the token
\* is then parsed as the next argument of the same definition.
C5_UnmatchedTokenNotConsumed ==
    /\ (last.op = "tryParseNamedArg" /\ last.firstArgIdx = AnnotIdx) =>
          \A a \in SpellingsOf(kCmdArgOpenEdit), sep \in NameSeps :
              str_StartsWithI(last.args, a \o sep) =>
                  \A t \in OtherTokens \cup {c[1] : c \in ValidColors}, f \in Followers :
                      last.args = NamedForm(a, sep, t, f) =>
                          last.res = [arg |-> BoolArg(TRUE), argsInOut |-> Ptr(t \o f)]
    /\ \A name \in AnnotNames, c \in ValidColors :
          (/\ last.op = "ParseCommand"
           /\ last.definition = name \o SP \o kCmdArgOpenEdit \o SP \o c[1]) =>
              /\ ~last.crashed
              /\ last.created
              /\ LastCmd # nullptr
              /\ LastCmd.firstArg = <<ColorArg(c[2]), BoolArg(TRUE)>>

ToLowerStr(s) == [i \in DOMAIN s |-> tolower(s[i])]

\* the three-way classification the comment above parseBool documents
BoolClass(s) ==
    IF ToLowerStr(s) \in {<<"1">>, <<"t", "r", "u", "e">>, <<"y", "e", "s">>} THEN 1
    ELSE IF ToLowerStr(s) \in {<<"0">>, <<"f", "a", "l", "s", "e">>, <<"n", "o">>} THEN 0
    ELSE -1

\* C6: parseBool classifies its token case-insensitively into 1 for
\* {1,true,yes}, 0 for {0,false,no} and -1 for anything else; so a named Bool
\* argument followed by a token of {0,false,no} has the value false, one
\* followed by a token of {1,true,yes} the value true, and in both cases the
\* cursor advances past the token.
C6_ParseBoolThreeOutcomes ==
    /\ last.op = "parseBool" => last.ret = BoolClass(last.s)
    /\ (last.op = "tryParseNamedArg" /\ last.firstArgIdx = AnnotIdx) =>
          \A a \in SpellingsOf(kCmdArgOpenEdit), sep \in NameSeps :
              str_StartsWithI(last.args, a \o sep) =>
                  \A t \in TrueTokens \cup FalseTokens, f \in Followers :
                      last.args = NamedForm(a, sep, t, f) =>
                          last.res = [arg |-> BoolArg(t \in TrueTokens),
                                      argsInOut |-> CursorAfter(f)]

\* the remainder starts with one of the argument names of the group of Exec
StartsWithExecArgName(rem) ==
    \/ str_StartsWithI(rem, kCmdArgSpec)
    \/ str_StartsWithI(rem, kCmdArgFilter)

StringArg(val) == [newArg("String", kCmdArgSpec) EXCEPT !.strVal = val]

\* C7 as stated: for Exec, whose default spec is a String, a remainder that
\* does not start with one of the group's argument names becomes, whole and
\* with its spaces, the value of exactly one String argument named after the
\* default spec, and no further argument is produced.
C7_WholeRemainderIsValue ==
    \A name \in ExecNames, rem \in Remainders :
        (/\ last.op = "ParseCommand"
         /\ last.definition = name \o SP \o rem
         /\ ~StartsWithExecArgName(rem)) =>
            /\ ~last.crashed
            /\ last.created
            /\ LastCmd # nullptr
            /\ LastCmd.firstArg = <<StringArg(rem)>>

\* s without the spaces it starts with
RECURSIVE DropLeadingSpaces(_)
DropLeadingSpaces(s) ==
    IF s # <<>> /\ s[1] = " " THEN DropLeadingSpaces(SubSeq(s, 2, Len(s))) ELSE s

\* C7, amended: the remainder after the spaces it starts with, and with every
\* other space, is the value of exactly one String argument named after the
\* default spec, and no further argument is produced.
C7_RemainderPastLeadingSpacesIsValue ==
    \A name \in ExecNames, rem \in Remainders :
        (/\ last.op = "ParseCommand"
         /\ last.definition = name \o SP \o rem
         /\ ~StartsWithExecArgName(rem)) =>
            /\ ~last.crashed
            /\ last.created
            /\ LastCmd # nullptr
            /\ LastCmd.firstArg = <<StringArg(DropLeadingSpaces(rem))>>

\* Exec was given, after two spaces, a program and a flag separated by a space
C7_Witness ==
    /\ LastCreated
    /\ last.definition = NameOf(CmdExec) \o <<" ", " ", "n", "o", "t", "e", "p", "a", "d", ".", "e", "x", "e", " ", "-", "-", "f", "l", "a", "g">>
    /\ Len(LastCmd.firstArg) = 1
    /\ LastCmd.firstArg = <<StringArg(<<"n", "o", "t", "e", "p", "a", "d", ".", "e", "x", "e", " ", "-", "-", "f", "l", "a", "g">>)>>

\* C8: for every command c of the scroll family and every integer n,
\* ParseCommand("<c> <n>") returns a fresh id k that is not c's base id (nor
\* any base id), FindCommandWithArg(k) finds the instance, and GetIntArg on it
\* with the name of the group's default argument returns n for any default.
C8_ScrollCountRoundTrip ==
    \A c \in ScrollIds, n \in (0 - MaxIntArg)..MaxIntArg :
        (/\ last.op = "ParseCommand"
         /\ last.definition = NameOf(c) \o SP \o IntToStr(n)) =>
            /\ ~last.crashed
            /\ last.created
            /\ last.ret # c
            /\ last.ret \notin BaseIds
            /\ LastCmd # nullptr
            /\ LastCmd.id = last.ret
            /\ \A d \in {-1, 0, n + 1} :
                  GetIntArg(LastCmd, ArgSpecAt(FirstArgIdx(0, CmdScrollUp)).name, d) = n

\* GoToPrevPage was given a negative count of two characters or more
C8_Witness ==
    /\ LastCreated
    /\ last.definition = NameOf(CmdGoToPrevPage) \o SP \o IntToStr(0 - 12)
    /\ GetIntArg(LastCmd, kCmdArgN, 0) = 0 - 12

\* C9: a Bool argument name immediately followed by the end of the input
\* yields a Bool argument with value true and ends the scan;
\* "<annotation command> color=<valid color> openEdit" creates an instance that
\* holds the Color argument with the decoded color and openEdit with value true.
C9_BoolNameAtEndIsTrue ==
    /\ (last.op = "tryParseNamedArg" /\ last.firstArgIdx = AnnotIdx) =>
          \A a \in SpellingsOf(kCmdArgOpenEdit) :
              last.args = a =>
                  last.res = [arg |-> BoolArg(TRUE), argsInOut |-> nullptr]
    /\ \A name \in AnnotNames, sep \in NameSeps, c \in ValidColors :
          (/\ last.op = "ParseCommand"
           /\ last.definition = name \o SP \o kCmdArgColor \o sep \o c[1] \o <<" ", "o", "p", "e", "n", "E", "d", "i", "t">>) =>
              /\ ~last.crashed
              /\ last.created
              /\ LastCmd # nullptr
              /\ Len(LastCmd.firstArg) = 2
              /\ GetArg(LastCmd, kCmdArgColor) = ColorArg(c[2])
              /\ GetArg(LastCmd, kCmdArgOpenEdit) = BoolArg(TRUE)
              /\ GetBoolArg(LastCmd, kCmdArgOpenEdit, FALSE) = TRUE

\* the definition of the spec's example was parsed
C9_Witness ==
    /\ LastCreated
    /\ last.definition = <<"C", "m", "d", "C", "r", "e", "a", "t", "e", "A", "n", "n", "o", "t", "T", "e", "x", "t", " ", "c", "o", "l", "o", "r", "=", "#", "F", "F", "0", "0", "0", "0", " ", "o", "p", "e", "n", "E", "d", "i", "t">>
    /\ GetArg(LastCmd, kCmdArgColor).colorVal.col = <<255, 0, 0>>
    /\ GetBoolArg(LastCmd, kCmdArgOpenEdit, FALSE)

\* the specs of the group that starts at index i whose type is not Bool
NonBoolSpecs(i) ==
    {k \in i..(Len(argSpecs) - 2) :
        /\ ArgSpecAt(k).cmdId = ArgSpecAt(i).cmdId
        /\ ArgSpecAt(k).type # "Bool"}

\* C10: for every non-Bool argument name a of a group and every value token v
\* without spaces, the named forms "a v", "a: v" and "a=v" produce the same
\* argument (or all none, for a rejected color) and leave the cursor at the
\* same place in the text that follows v.
C10_NamedFormsAgree ==
    (last.op = "tryParseNamedArg") =>
        \A k \in NonBoolSpecs(last.firstArgIdx) :
            \A a \in SpellingsOf(ArgSpecAt(k).name) :
                str_StartsWithI(last.args, a \o SP) =>
                    \A v \in Values, f \in Followers :
                        last.args = NamedForm(a, SP, v, f) =>
                            /\ last.res =
                                  [arg |-> parseArgOfType(ArgSpecAt(k).name, ArgSpecAt(k).type, v),
                                   argsInOut |-> CursorAfter(f)]
                            /\ tryParseNamedArg(last.firstArgIdx, NamedForm(a, <<":", " ">>, v, f)) = last.res
                            /\ tryParseNamedArg(last.firstArgIdx, NamedForm(a, <<"=">>, v, f)) = last.res

\* "n 5 x y" was scanned: the Int argument 5, the cursor at "x y"
C10_Witness ==
    /\ last.op = "tryParseNamedArg"
    /\ last.args = <<"n", " ", "5", " ", "x", " ", "y">>
    /\ last.firstArgIdx = FirstArgIdx(0, CmdScrollUp)
    /\ last.res.arg # nullptr
    /\ last.res.arg.intVal = 5
    /\ last.res.argsInOut = Ptr(<<"x", " ", "y">>)

\* the name resolves to a command of a group with specs, and the scan of the
\* remainder ends with no argument in the list
ScanYieldsNoArg(name, rem) ==
    /\ GetCommandIdByName(name) >= 0
    /\ ArgCmdId(GetCommandIdByName(name)) >= 0
    /\ ScanArgs(FirstArgIdx(0, ArgCmdId(GetCommandIdByName(name))),
                Ptr(rem), <<>>, FALSE).firstArg = <<>>

ZeroArgDefinitions ==
    {d[1] \o SP \o d[2] :
        d \in {e \in ScanNames \X Remainders : ScanYieldsNoArg(e[1], e[2])}}

InvalidColorDefinitions ==
    {name \o SP \o kCmdArgColor \o sep \o c :
        name \in AnnotNames, sep \in NameSeps, c \in InvalidColors}

\* C11: when the scan of a non-empty remainder produces zero arguments,
\* ParseCommand returns -1 and creates no instance; in particular
\* "<annotation command> color=<invalid>" returns -1.
C11_ZeroArgsReturnsMinusOne ==
    (/\ last.op = "ParseCommand"
     /\ last.definition \in ZeroArgDefinitions \cup InvalidColorDefinitions) =>
        /\ ~last.crashed
        /\ last.ret = -1
        /\ ~last.created
        /\ gFirstCommandWithArg = <<>>
        /\ gNextCommandWithArgId = CmdFirstWithArg

\* the ids, among those of the names given with remainders, of a group
GroupedIds == {id \in BaseIds : ArgCmdId(id) >= 0 /\ NameOf(id) \in ScanNames}

\* the remainder of a definition that starts with the name of id and a space
RemainderAfter(definition, id) == StrFrom(definition, Len(NameOf(id)) + 2)

\* C12: the origId of every created instance is the id the command name
\* resolved to, not the id of its group, while its arguments are those the
\* group's own command gets from the same remainder.
C12_OrigIdIsResolvedId ==
    \A id \in GroupedIds :
        (LastCreated /\ str_StartsWithI(last.definition, NameOf(id) \o SP)) =>
            /\ LastCmd # nullptr
            /\ LastCmd.id = last.ret
            /\ LastCmd.origId = id
            /\ LastCmd.definition = last.definition
            /\ LastCmd.firstArg =
                  Parsed[NameOf(ArgCmdId(id)) \o SP
                         \o RemainderAfter(last.definition, id)].firstArg

\* ScrollDown with a count: created as ScrollDown, parsed with the specs of ScrollUp
C12_Witness ==
    /\ LastCreated
    /\ last.definition = <<"C", "m", "d", "S", "c", "r", "o", "l", "l", "D", "o", "w", "n", " ", "5">>
    /\ LastCmd.origId = CmdScrollDown
    /\ ArgCmdId(LastCmd.origId) = CmdScrollUp
    /\ GetIntArg(LastCmd, kCmdArgN, 0) = 5

\* the arguments of cmd whose name is name, in whatever letter case
ArgsNamed(cmd, name) ==
    IF cmd = nullptr THEN {}
    ELSE {a \in Range(cmd.firstArg) : ToLowerStr(a.name) = ToLowerStr(name)}

\* C13: GetIntArg returns the caller's default when the instance has no
\* argument of that name or only arguments of that name whose type is not Int,
\* and GetBoolArg does the same for the type Bool.
C13_TypeMismatchIsNotFound ==
    /\ last.op = "GetIntArg" =>
          ((\A a \in ArgsNamed(last.cmd, last.name) : a.type # "Int") =>
              last.ret = last.defValue)
    /\ last.op = "GetBoolArg" =>
          ((\A a \in ArgsNamed(last.cmd, last.name) : a.type # "Bool") =>
              last.ret = last.defValue)

\* the name table's matching rule: s is the entry, or the entry followed by
\* "=" and anything, letter case apart
MatchesEntry(s, entry) ==
    \/ ToLowerStr(s) = ToLowerStr(entry)
    \/ /\ Len(s) > Len(entry)
       /\ ToLowerStr(SubSeq(s, 1, Len(entry))) = ToLowerStr(entry)
       /\ s[Len(entry) + 1] = "="

\* C14: for every catalog name n with id i, GetCommandIdByName returns i for n
\* in any letter case, and -1 for a text that matches no catalog name.
C14_NameLookupIgnoresCase ==
    last.op = "GetCommandIdByName" =>
        /\ \A i \in DOMAIN COMMANDS :
              ToLowerStr(last.cmdName) = ToLowerStr(COMMANDS[i][2]) =>
                  last.ret = COMMANDS[i][1]
        /\ (\A i \in DOMAIN COMMANDS : ~MatchesEntry(last.cmdName, COMMANDS[i][2])) =>
              last.ret = -1

\* the first name of the catalog was looked up in upper case
C14_Witness ==
    /\ last.op = "GetCommandIdByName"
    /\ last.cmdName = <<"C", "M", "D", "O", "P", "E", "N", "F", "I", "L", "E">>
    /\ last.ret = CmdOpenFile

\* b is a text that ends a, and is shorter
ProperSuffix(b, a) ==
    /\ Len(b) < Len(a)
    /\ b = SubSeq(a, Len(a) - Len(b) + 1, Len(a))

\* C15: the scan loop of ParseCommand terminates for every remainder: each
\* iteration either sets the cursor to null or moves it strictly forward in
\* the remainder, so the iterations are at most as many as the remainder has
\* characters.
C15_ScanLoopTerminates ==
    /\ [][(InLoop /\ InLoop') =>
              /\ last'.iterations = last.iterations + 1
              /\ \/ last'.currArg = nullptr
                 \/ ProperSuffix(last'.currArg.str, last.currArg.str)]_vars
    /\ [](InLoop =>
              /\ last.iterations <= Len(last.remainder)
              /\ last.currArg # nullptr =>
                     last.iterations + Len(last.currArg.str) <= Len(last.remainder))
    /\ InLoop ~> ~InLoop

\* three iterations were made and the cursor is still not null
C15_Witness ==
    /\ InLoop
    /\ last.iterations = 3
    /\ last.currArg # nullptr
    /\ Len(last.produced) = 3

\* a command name with a remainder whose last value is named, or is the
\* default value of a type that ends at a space
TrailingSpaceCases ==
    ({NameOf(id) : id \in ScrollIds} \X {<<"5">>, <<"n", "=", "5">>})
    \cup (ExecNames \X {<<"f", "i", "l", "t", "e", "r", "=", "x">>})
    \cup (AnnotNames \X {<<"c", "o", "l", "o", "r", "=", "#", "F", "F", "0", "0", "0", "0">>})

\* C16: scanning stops as soon as the cursor is empty: no iteration is made on
\* an empty cursor, so a remainder that ends with a space after its last value
\* ("<scroll command> 5 ", "<Exec> filter=x ") gives the argument list of the
\* same remainder without that space.
C16_EmptyCursorStopsScan ==
    /\ [][(InLoop /\ InLoop') => last.currArg.str # <<>>]_vars
    /\ [](\A c \in TrailingSpaceCases :
              (/\ last.op = "ParseCommand"
               /\ last.definition = c[1] \o SP \o c[2] \o SP) =>
                  /\ ~last.crashed
                  /\ last.created
                  /\ LastCmd # nullptr
                  /\ LastCmd.firstArg = Parsed[c[1] \o SP \o c[2]].firstArg)

Reverse(seq) == [i \in DOMAIN seq |-> seq[Len(seq) + 1 - i]]

\* the argument named name that comes last in seq, null if there is none
LastNamed(seq, name) ==
    IF \E i \in DOMAIN seq : ToLowerStr(seq[i].name) = ToLowerStr(name)
    THEN seq[CHOOSE i \in DOMAIN seq :
                /\ ToLowerStr(seq[i].name) = ToLowerStr(name)
                /\ \A j \in DOMAIN seq :
                      ToLowerStr(seq[j].name) = ToLowerStr(name) => j <= i]
    ELSE nullptr

\* the command the ParseCommand call that ends in the next state created
CreatedNext == FindInList(gFirstCommandWithArg', last'.ret)

\* C17: every argument the scan produces is put in front of the list, so the
\* list of the instance is in reverse parse order, and GetArg returns, of the
\* arguments with the name asked for, the one parsed last.
C17_ArgsInReverseParseOrder ==
    /\ [][(InLoop /\ InLoop' /\ Len(last'.produced) > Len(last.produced)) =>
              last'.firstArg = <<last'.produced[Len(last'.produced)]>> \o last.firstArg]_vars
    /\ [](InLoop => last.firstArg = Reverse(last.produced))
    /\ [][(InLoop /\ last'.op = "ParseCommand" /\ ~last'.crashed /\ last'.created) =>
              /\ CreatedNext # nullptr
              /\ CreatedNext.firstArg = Reverse(last.produced)
              /\ \A name \in AccessorNames :
                    GetArg(CreatedNext, name) = LastNamed(last.produced, name)]_vars

\* "n=5 n=6" was parsed: the list holds 6 before 5 and n reads as 6
C17_Witness ==
    /\ LastCreated
    /\ last.definition = <<"C", "m", "d", "S", "c", "r", "o", "l", "l", "U", "p", " ", "n", "=", "5", " ", "n", "=", "6">>
    /\ Len(LastCmd.firstArg) = 2
    /\ LastCmd.firstArg[1].intVal = 6
    /\ LastCmd.firstArg[2].intVal = 5
    /\ GetIntArg(LastCmd, kCmdArgN, 0) = 6

\* C18: every ParseCommand call that returns -1 leaves the registry list and
\* the id counter as they were before the call: a failed parse takes no id.
C18_FailedParseChangesNothing ==
    [][(last'.op = "ParseCommand" /\ ~last'.crashed /\ last'.ret = -1) =>
          /\ gFirstCommandWithArg' = gFirstCommandWithArg
          /\ gNextCommandWithArgId' = gNextCommandWithArgId
          /\ issued' = issued]_vars

\* a definition whose scan produced no argument failed while the registry
\* held two commands
C18_Witness ==
    /\ LastParse
    /\ last.definition = <<"C", "m", "d", "C", "r", "e", "a", "t", "e", "A", "n", "n", "o", "t", "T", "e", "x", "t", " ", "c", "o", "l", "o", "r", "=", "n", "o", "t", "-", "a", "-", "c", "o", "l", "o", "r", " ", "o", "p", "e", "n", "E", "d", "i", "t">>
    /\ last.ret = -1
    /\ Len(gFirstCommandWithArg) = 2
    /\ gNextCommandWithArgId = CmdFirstWithArg + 2

\* C19: an instance, once created with id k, is what FindCommandWithArg(k)
\* returns, with its origId, definition and arguments unchanged, in every
\* later state up to the next FreeCommandsWithArg, whatever ParseCommand calls
\* come in between; the instances in the registry have pairwise distinct ids.
C19_InstancePersistsUntilClear ==
    /\ [][(last'.op = "ParseCommand" /\ ~last'.crashed /\ last'.created
             /\ gNextCommandWithArgId' # gNextCommandWithArgId) =>
              FindInList(gFirstCommandWithArg', last'.ret) =
                  [id |-> last'.ret,
                   origId |-> GetCommandIdByName(Split2(last'.definition)[1]),
                   definition |-> last'.definition,
                   firstArg |-> Parsed[last'.definition].firstArg]]_vars
    /\ [][last'.op # "FreeCommandsWithArg" =>
              \A i \in DOMAIN gFirstCommandWithArg :
                  FindInList(gFirstCommandWithArg', gFirstCommandWithArg[i].id) =
                      gFirstCommandWithArg[i]]_vars
    /\ [](\A i, j \in DOMAIN gFirstCommandWithArg :
              i # j => gFirstCommandWithArg[i].id # gFirstCommandWithArg[j].id)

\* a parse failed while the registry held three commands, all still found
C19_Witness ==
    /\ LastParse
    /\ last.ret = -1
    /\ Len(gFirstCommandWithArg) = 3
    /\ \A k \in Range(issued) : FindCommandWithArg(k) # nullptr /\ FindCommandWithArg(k).id = k

\* C20: in every reachable state, every instance in the registry has a
\* non-empty argument list and an id from CmdFirstWithArg up to, and not
\* including, the id counter.
C20_InstancesHaveArgsAndIssuedIds ==
    \A i \in DOMAIN gFirstCommandWithArg :
        /\ gFirstCommandWithArg[i].firstArg # <<>>
        /\ gFirstCommandWithArg[i].id >= CmdFirstWithArg
        /\ gFirstCommandWithArg[i].id < gNextCommandWithArgId

\* the registry holds three instances, each created from another group
C20_Witness ==
    /\ Len(gFirstCommandWithArg) = 3
    /\ {ArgCmdId(gFirstCommandWithArg[i].origId) : i \in DOMAIN gFirstCommandWithArg}
          = {CmdExec, CmdCreateAnnotText, CmdScrollUp}
    /\ gNextCommandWithArgId = CmdFirstWithArg + 3

====
